---- MODULE Spec2Model ----
(***************************************************************************)
(* The worker state machine of the NanoMQ broker (nanomq/apps/broker.c,    *)
(* server_cb) together with the shared subscription state it mutates: the  *)
(* topic tree, the pipe index and the session cache.                       *)
(***************************************************************************)
EXTENDS Integers, Sequences, FiniteSets, TLC

VARIABLES work, tree, hash, cached, pipes, npkt, budget, ev, last, td, config, db_ret, boot

vars == <<work, tree, hash, cached, pipes, npkt, budget, ev, last, td, config, db_ret, boot>>

(* ------------------------------ bounds ------------------------------- *)

\* number of inbound packets the transport delivers in one run
MaxPackets == 6

\* the same, for the runs with two work items
MaxPacketsPar == 4

\* the same, for the runs with retained publications
MaxPacketsRet == 5

\* the same, for the runs with a bridge and with failing async operations
MaxPacketsBridge == 4

\* the same, for the runs under fair scheduling of the callbacks
MaxPacketsLive == 3

\* the same, for the runs that go through the start of broker()
MaxPacketsStart == 2

\* the work items of a broker started with parallel = 1, and with parallel = 2
Works == {1}

WorksPar == {1, 2}

\* pipe ids handed out by the transport; 0 is "no pipe"
Pipes == {1, 2}

QoS == {0, 1}

\* topic filters clients subscribe with, and topic names that are published
Filters == {"a", "+"}

ClientTopics == {"a"}

WillTopic == "w"

ConnectEvTopic == "ev_c"

DisconnectEvTopic == "ev_d"

(* --------------------------- conn-param ------------------------------ *)

\* the CONNECT snapshots a pipe can carry
CParams ==
  { [present |-> TRUE, clientid |-> "alice", clean_start |-> 0, will_flag |-> 1],
    [present |-> TRUE, clientid |-> "alice", clean_start |-> 1, will_flag |-> 0],
    [present |-> TRUE, clientid |-> "NULL",  clean_start |-> 1, will_flag |-> 0] }

NullCParam == [present |-> FALSE, clientid |-> "NULL", clean_start |-> 1, will_flag |-> 0]

ClientIds == {"alice"}

conn_param_get_clientid(cp) == cp.clientid

conn_param_get_clean_start(cp) == cp.clean_start

conn_param_get_will_flag(cp) == cp.will_flag = 1

conn_param_get_will_topic(cp) == WillTopic

conn_param_get_will_qos(cp) == 1

(* ----------------------------- messages ------------------------------ *)

Msg(cmd, pipe, topic, qos, filter, bad, payload) ==
  [cmd |-> cmd, pipe |-> pipe, topic |-> topic, qos |-> qos,
   filter |-> filter, bad |-> bad, payload |-> payload, retain |-> FALSE, dup |-> FALSE]

NoMsg == Msg("NULL", 0, "", 0, "", FALSE, "")

nng_msg_set_cmd_type(m, cmd) == [m EXCEPT !.cmd = cmd]

nng_msg_set_pipe(m, pid) == [m EXCEPT !.pipe = pid]

\* packets whose only handling is by command type
PlainCmds == {"PINGREQ", "PUBREC", "PUBACK"}

\* what the transport can deliver to a receiving context, given the pipes
Inbound ==
  { Msg("CONNACK", p, "", 0, "", FALSE, "") : p \in {q \in Pipes : pipes[q].st = "new"} }
  \cup { Msg("DISCONNECT_EV", p, DisconnectEvTopic, 0, "", FALSE, "ev")
           : p \in {q \in Pipes : pipes[q].st = "open"} }
  \cup { Msg(c, p, "", 0, "", FALSE, "")
           : c \in PlainCmds \cup {"DISCONNECT"}, p \in {q \in Pipes : pipes[q].st = "open"} }
  \cup { Msg("PUBLISH", p, t, q, "", FALSE, "data")
           : p \in {q \in Pipes : pipes[q].st = "open"}, t \in ClientTopics, q \in QoS }
  \cup { Msg("SUBSCRIBE", p, "", q, f, FALSE, "")
           : p \in {q \in Pipes : pipes[q].st = "open"}, f \in Filters, q \in QoS }
  \cup { Msg(c, p, "", 0, "", TRUE, "")
           : c \in {"SUBSCRIBE", "UNSUBSCRIBE"}, p \in {q \in Pipes : pipes[q].st = "open"} }
  \cup { Msg("UNSUBSCRIBE", p, "", 0, f, FALSE, "")
           : p \in {q \in Pipes : pipes[q].st = "open"}, f \in Filters }

\* a PUBLISH with the retain flag set
Retain(m) == [m EXCEPT !.retain = TRUE]

\* the same with retained publications: one that stores, one (empty payload)
\* that clears
InboundRet ==
  Inbound
  \cup { Retain(Msg("PUBLISH", p, t, 0, "", FALSE, pl))
           : p \in {q \in Pipes : pipes[q].st = "open"}, t \in ClientTopics, pl \in {"data", ""} }

(* ------------------------------ events ------------------------------- *)

\* what one callback invocation did, in program order
Ev(op, pipe, cmd, topic, qos, extra) ==
  [op |-> op, pipe |-> pipe, cmd |-> cmd, topic |-> topic, qos |-> qos, extra |-> extra]

E0(op) == Ev(op, 0, "", "", 0, 0)

nng_ctx_recv(ctx) == E0(IF ctx = "ctx" THEN "recv_ctx" ELSE "recv_bridge")

nng_ctx_send(m, extra) == Ev("send", m.pipe, m.cmd, m.topic, m.qos, extra)

nng_aio_finish == E0("finish")

\* debug_msg of an aio result rv
debug_msg(text, rv) == Ev("debug_msg", 0, text, "", 0, rv)

\* fatal(func, rv) prints func and the text of rv, and returns
fatal(func, rv) == Ev("fatal", 0, func, "", 0, rv)

\* bridge_publish_msg: the PUBLISH composed for the upstream broker
bridge_publish_msg(topic, payload, dup, qos, retain) ==
  [topic |-> topic, payload |-> payload, dup |-> dup, qos |-> qos, retain |-> retain]

\* nng_aio_set_msg(work->bridge_aio, smsg); nng_ctx_send(work->bridge_ctx, work->bridge_aio)
nng_ctx_send_bridge(smsg) ==
  [op |-> "bridge_send", pipe |-> 0, cmd |-> "PUBLISH", topic |-> smsg.topic,
   qos |-> smsg.qos, extra |-> 0, payload |-> smsg.payload, dup |-> smsg.dup,
   retain |-> smsg.retain]

\* the operations a transition can end on
SuspendOps == {"recv_ctx", "recv_bridge", "send", "bridge_send", "finish", "fatal"}

RECURSIVE SelectEv(_, _)
SelectEv(s, ops) ==
  IF s = <<>> THEN <<>>
  ELSE IF Head(s).op \in ops THEN <<Head(s)>> \o SelectEv(Tail(s), ops)
       ELSE SelectEv(Tail(s), ops)

Suspensions(s) == SelectEv(s, SuspendOps)

Sends(s) == SelectEv(s, {"send"})

\* position of the first event with this op, 0 if there is none
RECURSIVE FirstIdx(_, _, _)
FirstIdx(s, op, i) ==
  IF i > Len(s) THEN 0
  ELSE IF s[i].op = op THEN i ELSE FirstIdx(s, op, i + 1)

(* ------------------- topic tree (dbtree), live tree ------------------ *)

\* topic_filter: does the filter match the topic name
topic_filter(f, t) == f = t \/ f = "+"

EmptyTree == [f \in Filters |-> {}]

dbtree_insert_client(tr, f, p, q) ==
  IF \E c \in tr[f] : c.pipe = p THEN tr
  ELSE [tr EXCEPT ![f] = @ \cup {[pipe |-> p, qos |-> q]}]

dbtree_delete_client(tr, f, p) == [tr EXCEPT ![f] = {c \in @ : c.pipe # p}]

\* requested QoS of pipe p for a topic: the highest over its matching filters
RequestedQos(tr, t, p) ==
  LET qs == {c.qos : c \in UNION {{d \in tr[f] : d.pipe = p} : f \in {g \in Filters : topic_filter(g, t)}}}
  IN CHOOSE q \in qs : \A r \in qs : r <= q

Matched(tr, t) ==
  {p \in Pipes : \E f \in Filters : topic_filter(f, t) /\ \E c \in tr[f] : c.pipe = p}

Min(a, b) == IF a < b THEN a ELSE b

RECURSIVE AscSeq(_)
AscSeq(S) ==
  IF S = {} THEN <<>>
  ELSE LET m == CHOOSE x \in S : \A y \in S : x <= y
       IN <<m>> \o AscSeq(S \ {m})

(* ------------------- topic tree (dbtree), retained ------------------ *)

\* the retained store: at most one retained message per topic name
EmptyRet == {}

\* retain(topic, msg, qos): an empty payload deletes the entry, else overwrite
dbtree_retain(dr, m) ==
  LET rest == {r \in dr : r.topic # m.topic}
  IN IF m.payload = "" THEN rest
     ELSE rest \cup {[topic |-> m.topic, qos |-> m.qos, payload |-> m.payload]}

\* handle_pub on the retained store: only a PUBLISH with retain = 1 writes it
handle_pub_retain(dr, m) == IF m.cmd = "PUBLISH" /\ m.retain THEN dbtree_retain(dr, m) ELSE dr

\* retained_for(filter): the retained messages whose topic matches the filter
retained_for(dr, f) == {r \in dr : topic_filter(f, r.topic)}

\* a set of retained messages as a vector
RECURSIVE RetSeq(_)
RetSeq(S) ==
  IF S = {} THEN <<>>
  ELSE LET m == CHOOSE x \in S : TRUE
       IN <<m>> \o RetSeq(S \ {m})

\* work->msg_ret: the vector and whether its storage is still allocated
NoMsgRet == [items |-> <<>>, live |-> FALSE]

(* --------------------- pipe index (dbhash) --------------------------- *)

EmptyHash == [p \in Pipes |-> <<>>]

InSeq(s, x) == \E i \in 1..Len(s) : s[i] = x

RECURSIVE Without(_, _)
Without(s, x) ==
  IF s = <<>> THEN <<>>
  ELSE IF Head(s) = x THEN Without(Tail(s), x)
       ELSE <<Head(s)>> \o Without(Tail(s), x)

dbhash_check_id(h, p) == h[p] # <<>>

dbhash_get_topic_queue(h, p) == h[p]

dbhash_insert_topic(h, p, f) == IF InSeq(h[p], f) THEN h ELSE [h EXCEPT ![p] = Append(@, f)]

dbhash_del_topic(h, p, f) == [h EXCEPT ![p] = Without(@, f)]

dbhash_del_topic_queue(h, p) == [h EXCEPT ![p] = <<>>]

(* ------------------------- session cache ----------------------------- *)

EmptyCache == [c \in ClientIds |-> <<>>]

\* the subscriptions of pipe p, in topic-queue order, with their requested QoS
RECURSIVE SubsOf(_, _, _)
SubsOf(tr, tq, p) ==
  IF tq = <<>> THEN <<>>
  ELSE LET cs == {c \in tr[Head(tq)] : c.pipe = p}
       IN (IF cs = {} THEN <<>>
           ELSE <<[topic |-> Head(tq), qos |-> (CHOOSE c \in cs : TRUE).qos]>>)
          \o SubsOf(tr, Tail(tq), p)

cache_session(ca, clientid, p, tr, h) ==
  IF dbhash_check_id(h, p) THEN [ca EXCEPT ![clientid] = SubsOf(tr, h[p], p)] ELSE ca

\* re-bind a list of cached subscriptions to pipe p in tree and index
RECURSIVE Rebind(_, _, _, _)
Rebind(tr, h, subs, p) ==
  IF subs = <<>> THEN [tree |-> tr, hash |-> h]
  ELSE Rebind(dbtree_insert_client(tr, Head(subs).topic, p, Head(subs).qos),
              dbhash_insert_topic(h, p, Head(subs).topic), Tail(subs), p)

\* restore_session: the cached subscriptions are re-bound and the session consumed
restore_session(ca, clientid, cparam, p, tr, h) ==
  LET r == Rebind(tr, h, ca[clientid], p)
  IN [tree |-> r.tree, hash |-> r.hash, cached |-> [ca EXCEPT ![clientid] = <<>>]]

(* ------------------------- publish handler --------------------------- *)

\* the fanout descriptor of a fresh work item
init_pipe_content == [total |-> 0, current_index |-> 0, pipe_info |-> <<>>]

PipeInfoOf(tr, t, q) ==
  LET ps == AscSeq(Matched(tr, t))
  IN [i \in 1..Len(ps) |-> [pipe |-> ps[i], qos |-> Min(q, RequestedQos(tr, t, ps[i]))]]

\* handle_pub: decode the PUBLISH and fill the fanout descriptor
handle_pub_pipe_ct(tr, m) ==
  LET pi == PipeInfoOf(tr, m.topic, m.qos)
  IN [total |-> Len(pi), current_index |-> 0, pipe_info |-> pi]

\* per-packet allocations: the decoded pub packet and the pipe_info vector
NoAlloc == [live |-> FALSE, frees |-> 0]

Alloc == [live |-> TRUE, frees |-> 0]

Free(a) == [live |-> FALSE, frees |-> Min(a.frees + 1, 2)]

NoPubPacket == [topic |-> "", qos |-> 0, payload |-> "", retain |-> FALSE, dup |-> FALSE]

handle_pub_packet(m) ==
  [topic |-> m.topic, qos |-> m.qos, payload |-> m.payload, retain |-> m.retain, dup |-> m.dup]

\* encode_msg: the outbound PUBLISH for a destination with negotiated QoS q
encode_pub_message(m, pkt, pipe, q) ==
  Msg("PUBLISH", pipe, pkt.topic, Min(pkt.qos, q), "", FALSE, pkt.payload)

(* ----------------------------- work items ---------------------------- *)

\* alloc_work / proto_work_init: a work item as broker() creates it
alloc_work(proto) ==
  [state |-> "INIT", proto |-> proto, msg |-> NoMsg, pid |-> 0,
   cparam |-> NullCParam, pipe_ct |-> init_pipe_content,
   pub_packet |-> NoPubPacket, pub_alloc |-> NoAlloc, pinfo_alloc |-> NoAlloc,
   msg_ret |-> NoMsgRet, pend |-> "none"]

\* the asynchronous operation a callback invocation leaves outstanding
PendOf(evs) == LET s == Suspensions(evs) IN IF s = <<>> THEN "none" ELSE s[Len(s)].op

\* handle_pub(work, work->pipe_ct) applied to the work item's message
handle_pub(wk, tr) ==
  [wk EXCEPT !.pipe_ct = handle_pub_pipe_ct(tr, wk.msg),
             !.pub_packet = handle_pub_packet(wk.msg),
             !.pub_alloc = Alloc, !.pinfo_alloc = Alloc]

EvHandlePub(m) == Ev("handle_pub", 0, m.cmd, m.topic, m.qos, 0)

\* the result of one callback invocation
Res(wk, tr, h, ca, evs) == [work |-> wk, tree |-> tr, hash |-> h, cached |-> ca, ev |-> evs]

(* ------------------------ server_cb: case INIT ----------------------- *)

InitCase(wk, tr, h, ca) ==
  IF wk.proto = "PROTO_MQTT_BRIDGE"
  THEN Res([wk EXCEPT !.state = "BRIDGE"], tr, h, ca, <<nng_ctx_recv("bridge_ctx")>>)
  ELSE Res([wk EXCEPT !.state = "RECV"], tr, h, ca, <<nng_ctx_recv("ctx")>>)

(* ------------------------ server_cb: case RECV ----------------------- *)

\* the common tail of the RECV case: work->state = WAIT; nng_aio_finish
RecvTail(wk, tr, h, ca, evs) ==
  Res([wk EXCEPT !.state = "WAIT"], tr, h, ca, evs \o <<nng_aio_finish>>)

\* CMD_DISCONNECT: the will message is promoted to a PUBLISH
RecvDisconnect(wk, tr, h, ca) ==
  IF conn_param_get_will_flag(wk.cparam)
  THEN LET m  == Msg("PUBLISH", wk.msg.pipe, conn_param_get_will_topic(wk.cparam),
                     conn_param_get_will_qos(wk.cparam), "", FALSE, "will")
           w1 == handle_pub([wk EXCEPT !.msg = m], tr)
       IN RecvTail(w1, tr, h, ca, <<EvHandlePub(m)>>)
  ELSE Res([wk EXCEPT !.msg = NoMsg, !.state = "RECV"], tr, h, ca, <<nng_ctx_recv("ctx")>>)

\* the forward of a publication to the upstream broker
BridgeForward(pkt) ==
  nng_ctx_send_bridge(bridge_publish_msg(pkt.topic, pkt.payload, pkt.dup, pkt.qos, pkt.retain))

\* CMD_PUBLISH forwarding once for every forwards filter that matches
RecvPublishEachFilter(wk, tr, h, ca, conf) ==
  LET m     == nng_msg_set_cmd_type(wk.msg, "PUBLISH")
      w1    == handle_pub([wk EXCEPT !.msg = m], tr)
      n     == Cardinality({f \in conf.forwards : topic_filter(f, w1.pub_packet.topic)})
      fwd   == IF conf.bridge_mode THEN [i \in 1..n |-> BridgeForward(w1.pub_packet)] ELSE <<>>
  IN RecvTail(w1, tr, h, ca, <<EvHandlePub(m)>> \o fwd)

\* CMD_PUBLISH: fanout, then the bridge forward
RecvPublish(wk, tr, h, ca, conf) ==
  LET m     == nng_msg_set_cmd_type(wk.msg, "PUBLISH")
      w1    == handle_pub([wk EXCEPT !.msg = m], tr)
      found == \E f \in conf.forwards : topic_filter(f, w1.pub_packet.topic)
      fwd   == IF conf.bridge_mode /\ found THEN <<BridgeForward(w1.pub_packet)>> ELSE <<>>
  IN RecvTail(w1, tr, h, ca, <<EvHandlePub(m)>> \o fwd)

\* the CONNACK branch without the restore_session call
ConnackNoRestore(wk, tr, h, ca) == [tree |-> tr, hash |-> h, cached |-> ca]

\* the restore_session call of the CONNACK branch
ConnackRestore(wk, tr, h, ca) ==
  LET clientid == conn_param_get_clientid(wk.cparam)
  IN IF clientid # "NULL"
     THEN restore_session(ca, clientid, wk.cparam, wk.pid, tr, h)
     ELSE [tree |-> tr, hash |-> h, cached |-> ca]

\* the CONNACK branch publishing the event before it sends the CONNACK
RecvConnackEventFirst(wk, tr, h, ca) ==
  LET m0   == nng_msg_set_pipe(wk.msg, wk.pid)
      r    == ConnackRestore(wk, tr, h, ca)
      smsg == Msg("PUBLISH", 0, ConnectEvTopic, 0, "", FALSE, "ev")
      w1   == handle_pub([wk EXCEPT !.msg = smsg], r.tree)
  IN Res([w1 EXCEPT !.state = "WAIT"], r.tree, r.hash, r.cached,
         <<E0("conn_param_clone"), E0("nng_msg_clone"), EvHandlePub(smsg),
           nng_ctx_send(m0, 0), E0("nng_msg_free"), E0("conn_param_free"), nng_aio_finish>>)

\* CMD_CONNACK: restore the session, send the CONNACK, publish the event
RecvConnack(wk, tr, h, ca) ==
  LET m0   == nng_msg_set_pipe(wk.msg, wk.pid)
      cl   == IF wk.cparam.present THEN <<E0("conn_param_clone")>> ELSE <<>>
      r    == ConnackRestore(wk, tr, h, ca)
      rs   == IF conn_param_get_clientid(wk.cparam) # "NULL"
              THEN <<Ev("restore_session", wk.pid, "", "", 0, 0)>> ELSE <<>>
      smsg == Msg("PUBLISH", 0, ConnectEvTopic, 0, "", FALSE, "ev")
      w1   == handle_pub([wk EXCEPT !.msg = smsg], r.tree)
  IN Res([w1 EXCEPT !.state = "WAIT"], r.tree, r.hash, r.cached,
         cl \o rs \o <<E0("nng_msg_clone"), nng_ctx_send(m0, 0), E0("nng_msg_free"),
                       EvHandlePub(smsg), E0("conn_param_free"), nng_aio_finish>>)

\* the cache_session call of the DISCONNECT_EV branch
DisconnectEvCache(wk, tr, h, ca) ==
  LET clientid == conn_param_get_clientid(wk.cparam)
  IN IF clientid # "NULL" /\ conn_param_get_clean_start(wk.cparam) = 0
     THEN cache_session(ca, clientid, wk.pid, tr, h)
     ELSE ca

\* the while (tq) loop: delete the pipe from the tree node of every topic
RECURSIVE TeardownLoop(_, _, _)
TeardownLoop(tr, tq, p) ==
  IF tq = <<>> THEN tr
  ELSE TeardownLoop(dbtree_delete_client(tr, Head(tq), p), Tail(tq), p)

\* "free client ctx": the teardown of the pipe's subscriptions
DisconnectEvTeardown(wk, tr, h) ==
  IF dbhash_check_id(h, wk.pid)
  THEN [tree |-> TeardownLoop(tr, dbhash_get_topic_queue(h, wk.pid), wk.pid),
        hash |-> dbhash_del_topic_queue(h, wk.pid)]
  ELSE [tree |-> tr, hash |-> h]

\* CMD_DISCONNECT_EV: publish the event, cache the session, tear down
RecvDisconnectEv(wk, tr, h, ca) ==
  LET m  == nng_msg_set_cmd_type(wk.msg, "PUBLISH")
      w1 == handle_pub([wk EXCEPT !.msg = m], tr)
      c1 == DisconnectEvCache(w1, tr, h, ca)
      t1 == DisconnectEvTeardown(w1, tr, h)
  IN RecvTail([w1 EXCEPT !.cparam = NullCParam], t1.tree, t1.hash, c1,
              <<EvHandlePub(m), E0("conn_param_free")>>)

\* case RECV for the message m the aio delivers, cp its conn-param
RecvCase(wk, m, cp, tr, h, ca, conf) ==
  LET w0 == [wk EXCEPT !.msg = m, !.cparam = cp, !.pid = m.pipe]
  IN CASE m.cmd = "DISCONNECT"    -> RecvDisconnect(w0, tr, h, ca)
       [] m.cmd = "PUBLISH"       -> RecvPublish(w0, tr, h, ca, conf)
       [] m.cmd = "CONNACK"       -> RecvConnack(w0, tr, h, ca)
       [] m.cmd = "DISCONNECT_EV" -> RecvDisconnectEv(w0, tr, h, ca)
       [] OTHER                   -> RecvTail(w0, tr, h, ca, <<>>)

(* ------------------------ server_cb: case WAIT ----------------------- *)

\* the reply path shared by the reply branches: state = SEND, send, finish
WaitReply(wk, tr, h, ca, evs, reply) ==
  Res([wk EXCEPT !.msg = NoMsg, !.state = "SEND"], tr, h, ca,
      evs \o <<nng_ctx_send(reply, 0), nng_aio_finish>>)

\* CMD_PINGREQ and CMD_PUBREC: the request buffer is rewritten into the reply
WaitRewrite(wk, tr, h, ca, cmd) ==
  LET smsg == nng_msg_set_cmd_type(wk.msg, cmd)
      w1   == [wk EXCEPT !.pid = smsg.pipe]
  IN WaitReply(w1, tr, h, ca, <<>>, nng_msg_set_pipe(smsg, w1.pid))

\* decode_sub_message: SUCCESS unless the packet is malformed
decode_sub_message(m) == ~m.bad

\* sub_ctx_handle: insert the filter in the topic tree and the pipe index
sub_ctx_handle(wk, tr, h) ==
  [tree |-> dbtree_insert_client(tr, wk.msg.filter, wk.pid, wk.msg.qos),
   hash |-> dbhash_insert_topic(h, wk.pid, wk.msg.filter)]

\* sub_ctx_handle on work->msg_ret: the retained matches of the filter
sub_ctx_handle_ret(dr, f) ==
  [items |-> RetSeq(retained_for(dr, f)), live |-> retained_for(dr, f) # {}]

\* for (i < cvector_size(msg_ret)): clone and send each retained message
RECURSIVE ReplayLoop(_, _)
ReplayLoop(items, pid) ==
  IF items = <<>> THEN <<>>
  ELSE <<E0("nng_msg_clone"),
         nng_ctx_send(Msg("PUBLISH", pid, Head(items).topic, Head(items).qos, "", FALSE,
                          Head(items).payload), 0)>>
       \o ReplayLoop(Tail(items), pid)

\* if (work->msg_ret): a vector that was never set, or was freed by
\* cvector_free and not reset, is read as the build happens to find it:
\* empty, or (stale) still holding what it held
ReplayedItems(mr, stale) == IF mr.live \/ stale THEN mr.items ELSE <<>>

\* the failure path of the SUBSCRIBE branch
SubscribeFailure(wk, tr, h) ==
  IF dbhash_check_id(h, wk.pid)
  THEN [tree |-> tr, hash |-> dbhash_del_topic_queue(h, wk.pid)]
  ELSE [tree |-> tr, hash |-> h]

\* CMD_SUBSCRIBE with the SUBACK sent before the retained replay
WaitSubscribeAckFirst(wk, tr, h, ca, dr, stale) ==
  LET w1   == [wk EXCEPT !.pid = wk.msg.pipe]
      ok   == decode_sub_message(w1.msg)
      r    == IF ok THEN sub_ctx_handle(w1, tr, h) ELSE SubscribeFailure(w1, tr, h)
      mr   == IF ok THEN sub_ctx_handle_ret(dr, w1.msg.filter) ELSE w1.msg_ret
      smsg == Msg("SUBACK", w1.pid, "", 0, "", FALSE, "")
      w2   == [w1 EXCEPT !.msg_ret = [mr EXCEPT !.live = FALSE], !.msg = NoMsg, !.state = "SEND"]
  IN Res(w2, r.tree, r.hash, ca,
         <<E0("nng_msg_free"), nng_ctx_send(smsg, 0)>>
         \o ReplayLoop(ReplayedItems(mr, stale), w1.pid) \o <<nng_aio_finish>>)

\* CMD_SUBSCRIBE: subscribe, replay the retained messages, send the SUBACK
WaitSubscribe(wk, tr, h, ca, dr, stale) ==
  LET w1   == [wk EXCEPT !.pid = wk.msg.pipe]
      ok   == decode_sub_message(w1.msg)
      r    == IF ok THEN sub_ctx_handle(w1, tr, h) ELSE SubscribeFailure(w1, tr, h)
      mr   == IF ok THEN sub_ctx_handle_ret(dr, w1.msg.filter) ELSE w1.msg_ret
      smsg == Msg("SUBACK", w1.pid, "", 0, "", FALSE, "")
      w2   == [w1 EXCEPT !.msg_ret = [mr EXCEPT !.live = FALSE]]
  IN WaitReply(w2, r.tree, r.hash, ca,
               <<E0("nng_msg_free")>> \o ReplayLoop(ReplayedItems(mr, stale), w1.pid), smsg)

\* unsub_ctx_handle: delete the filter from the topic tree and the pipe index
unsub_ctx_handle(wk, tr, h) ==
  [tree |-> dbtree_delete_client(tr, wk.msg.filter, wk.pid),
   hash |-> dbhash_del_topic(h, wk.pid, wk.msg.filter)]

\* CMD_UNSUBSCRIBE
WaitUnsubscribe(wk, tr, h, ca) ==
  LET w1   == [wk EXCEPT !.pid = wk.msg.pipe]
      r    == IF decode_sub_message(w1.msg) THEN unsub_ctx_handle(w1, tr, h)
              ELSE [tree |-> tr, hash |-> h]
      w2   == [w1 EXCEPT !.pid = 0]
      smsg == Msg("UNSUBACK", w2.pid, "", 0, "", FALSE, "")
  IN WaitReply(w2, r.tree, r.hash, ca, <<E0("nng_msg_free")>>, smsg)

\* the loop with p_info read once, before the loop, instead of per iteration
RECURSIVE SendLoopStaleInfo(_, _, _)
SendLoopStaleInfo(pc, smsg, evs) ==
  IF pc.total > pc.current_index
  THEN LET p_info == pc.pipe_info[1]
       IN SendLoopStaleInfo([pc EXCEPT !.current_index = @ + 1], smsg,
                            evs \o <<E0("nng_msg_clone"),
                                     nng_ctx_send(nng_msg_set_pipe(smsg, p_info.pipe), p_info.qos)>>)
  ELSE [pipe_ct |-> pc, ev |-> evs]

\* while (total > current_index): one send per destination
RECURSIVE SendLoop(_, _, _)
SendLoop(pc, smsg, evs) ==
  IF pc.total > pc.current_index
  THEN LET p_info == pc.pipe_info[pc.current_index + 1]
       IN SendLoop([pc EXCEPT !.current_index = @ + 1], smsg,
                   evs \o <<E0("nng_msg_clone"),
                            nng_ctx_send(nng_msg_set_pipe(smsg, p_info.pipe), p_info.qos)>>)
  ELSE [pipe_ct |-> pc, ev |-> evs]

\* the message every destination of the fanout is sent
FanoutMsg(wk) ==
  LET p_info == wk.pipe_ct.pipe_info[wk.pipe_ct.current_index + 1]
  IN encode_pub_message(wk.msg, wk.pub_packet, 0, p_info.qos)

\* the release without the init_pipe_content call
ReleaseFanoutNoInit(wk) ==
  [wk EXCEPT !.pub_alloc = Free(@), !.pinfo_alloc = Free(@), !.pub_packet = NoPubPacket]

\* free_pub_packet; free_pipes_info; init_pipe_content
ReleaseFanout(wk) ==
  [wk EXCEPT !.pub_alloc = Free(@), !.pinfo_alloc = Free(@),
             !.pub_packet = NoPubPacket, !.pipe_ct = init_pipe_content]

\* the release after the send loop: if (total <= current_index)
FanoutRelease(wk, pc) ==
  IF pc.total <= pc.current_index
  THEN ReleaseFanout([wk EXCEPT !.pipe_ct = pc])
  ELSE [wk EXCEPT !.pipe_ct = pc]

\* the fanout without the nng_msg_free(smsg) after the loop
WaitFanoutNoFree(wk, tr, h, ca) ==
  LET smsg == FanoutMsg(wk)
      l    == SendLoop(wk.pipe_ct, smsg, <<>>)
      w1   == FanoutRelease([wk EXCEPT !.msg = NoMsg,
                                       !.pid = l.pipe_ct.pipe_info[l.pipe_ct.current_index].pipe],
                            l.pipe_ct)
  IN Res([w1 EXCEPT !.state = "SEND"], tr, h, ca, l.ev \o <<nng_aio_finish>>)

\* the fanout going to SEND with none of its sends issued
WaitFanoutDeferred(wk, tr, h, ca) ==
  Res([wk EXCEPT !.msg = NoMsg, !.state = "SEND"], tr, h, ca, <<nng_aio_finish>>)

\* CMD_PUBLISH with total > 0
WaitFanout(wk, tr, h, ca) ==
  LET smsg == FanoutMsg(wk)
      l    == SendLoop(wk.pipe_ct, smsg, <<>>)
      w1   == FanoutRelease([wk EXCEPT !.msg = NoMsg,
                                       !.pid = l.pipe_ct.pipe_info[l.pipe_ct.current_index].pipe],
                            l.pipe_ct)
  IN Res([w1 EXCEPT !.state = "SEND"], tr, h, ca,
         l.ev \o <<E0("nng_msg_free"), nng_aio_finish>>)

\* the receive re-armed from WAIT: always on work->ctx
WaitRearm(wk, tr, h, ca, evs) ==
  Res([wk EXCEPT !.msg = NoMsg,
                 !.state = IF wk.proto = "PROTO_MQTT_BRIDGE" THEN "BRIDGE" ELSE "RECV"],
      tr, h, ca, evs \o <<nng_ctx_recv("ctx")>>)

\* CMD_PUBLISH with total = 0
WaitNoFanout(wk, tr, h, ca) ==
  WaitRearm(ReleaseFanout(wk), tr, h, ca, <<E0("nng_msg_free")>>)

\* the drop branches finishing the aio instead of arming a receive
WaitDropNoRearm(wk, tr, h, ca) ==
  Res(wk, tr, h, ca, <<nng_aio_finish>>)

\* CMD_PUBACK, CMD_PUBREL, CMD_PUBCOMP and "broker has nothing to do"
WaitDrop(wk, tr, h, ca) ==
  Res([wk EXCEPT !.msg = NoMsg, !.state = "RECV"], tr, h, ca,
      (IF wk.msg # NoMsg THEN <<E0("nng_msg_free")>> ELSE <<>>) \o <<nng_ctx_recv("ctx")>>)

WaitCase(wk, tr, h, ca, dr, stale) ==
  CASE wk.msg.cmd = "PINGREQ"     -> WaitRewrite(wk, tr, h, ca, "PINGRESP")
    [] wk.msg.cmd = "PUBREC"      -> WaitRewrite(wk, tr, h, ca, "PUBREL")
    [] wk.msg.cmd = "SUBSCRIBE"   -> WaitSubscribe(wk, tr, h, ca, dr, stale)
    [] wk.msg.cmd = "UNSUBSCRIBE" -> WaitUnsubscribe(wk, tr, h, ca)
    [] wk.msg.cmd = "PUBLISH"     -> IF wk.pipe_ct.total > 0 THEN WaitFanout(wk, tr, h, ca)
                                     ELSE WaitNoFanout(wk, tr, h, ca)
    [] OTHER                      -> WaitDrop(wk, tr, h, ca)

(* ------------------------ server_cb: case SEND ----------------------- *)

\* case SEND releasing the fanout whatever pipe_ct->total is
SendCaseAlwaysFree(wk, tr, h, ca) ==
  LET w2 == [ReleaseFanout(wk) EXCEPT !.msg = NoMsg]
  IN IF wk.proto = "PROTO_MQTT_BRIDGE"
     THEN Res([w2 EXCEPT !.state = "BRIDGE"], tr, h, ca, <<nng_ctx_recv("bridge_ctx")>>)
     ELSE Res([w2 EXCEPT !.state = "RECV"], tr, h, ca, <<nng_ctx_recv("ctx")>>)

SendCase(wk, tr, h, ca) ==
  LET w1 == IF wk.pipe_ct.total > 0 THEN ReleaseFanout(wk) ELSE wk
      w2 == [w1 EXCEPT !.msg = NoMsg]
  IN IF wk.proto = "PROTO_MQTT_BRIDGE"
     THEN Res([w2 EXCEPT !.state = "BRIDGE"], tr, h, ca, <<nng_ctx_recv("bridge_ctx")>>)
     ELSE Res([w2 EXCEPT !.state = "RECV"], tr, h, ca, <<nng_ctx_recv("ctx")>>)

(* --------------------------- the callbacks --------------------------- *)

Idle == [on |-> FALSE, tq |-> <<>>, del |-> FALSE]

\* A work item waiting for a packet: case RECV assigns work->cparam and
\* work->pid from the packet before it reads them, so what they held is dropped.
Armed(wk) ==
  IF wk.state \in {"RECV", "BRIDGE"} /\ wk.pend \in {"recv_ctx", "recv_bridge"}
  THEN [wk EXCEPT !.pid = 0, !.cparam = NullCParam]
  ELSE wk

\* the step just made: by work item w, entered in state st, on a packet cmd of
\* pipe; prev is the step before it and the number of sends that one issued
Last(w, st, cmd, pipe) ==
  [w |-> w, state |-> st, cmd |-> cmd, pipe |-> pipe,
   prev |-> [state |-> last.state, cmd |-> last.cmd, sends |-> Len(Sends(ev))]]

\* commit the result of the callback of work item w entered in state st
Commit(w, st, cmd, pipe, r) ==
  /\ work' = [work EXCEPT ![w] = Armed([r.work EXCEPT !.pend = PendOf(r.ev)])]
  /\ tree' = r.tree
  /\ hash' = r.hash
  /\ cached' = r.cached
  /\ ev' = r.ev
  /\ last' = Last(w, st, cmd, pipe)

\* broker(): server_cb(works[i]) starts the work item
ServerCbInit(w) ==
  /\ work[w].state = "INIT"
  /\ ~td[w].on
  /\ Commit(w, "INIT", "", 0, InitCase(work[w], tree, hash, cached))
  /\ UNCHANGED <<pipes, npkt, budget, td, config, boot, db_ret>>

\* the pipes after the transport has delivered m
PipesAfter(m, cp) ==
  CASE m.cmd = "CONNACK"       -> [pipes EXCEPT ![m.pipe] = [st |-> "open", cparam |-> cp]]
    [] m.cmd = "DISCONNECT_EV" -> [pipes EXCEPT ![m.pipe].st = "closed"]
    [] OTHER                   -> pipes

\* the conn-param the transport attaches to m
CParamsFor(m) == IF m.cmd = "CONNACK" THEN CParams ELSE {pipes[m.pipe].cparam}

\* a receive on work->ctx completes with one of the packets msgs
RecvFrom(w, msgs) ==
  /\ work[w].state = "RECV"
  /\ work[w].pend = "recv_ctx"
  /\ ~td[w].on
  /\ npkt < budget
  /\ \E m \in msgs : \E cp \in CParamsFor(m) :
       /\ Commit(w, "RECV", m.cmd, m.pipe, RecvCase(work[w], m, cp, tree, hash, cached, config))
       /\ pipes' = PipesAfter(m, cp)
       /\ db_ret' = handle_pub_retain(db_ret, m)
  /\ npkt' = npkt + 1
  /\ UNCHANGED <<budget, td, config, boot>>

\* the callback in RECV
ServerCbRecv(w) == RecvFrom(w, Inbound)

\* nng_aio_finish re-enters the callback in WAIT
ServerCbWait(w) ==
  /\ work[w].state = "WAIT"
  /\ work[w].pend = "finish"
  /\ ~td[w].on
  /\ \E stale \in BOOLEAN :
       Commit(w, "WAIT", work[w].msg.cmd, work[w].msg.pipe,
              WaitCase(work[w], tree, hash, cached, db_ret, stale))
  /\ UNCHANGED <<pipes, npkt, budget, td, config, boot, db_ret>>

\* the callback in SEND
ServerCbSend(w) ==
  /\ work[w].state = "SEND"
  /\ work[w].pend \in {"finish", "send"}
  /\ ~td[w].on
  /\ Commit(w, "SEND", "", 0, SendCase(work[w], tree, hash, cached))
  /\ UNCHANGED <<pipes, npkt, budget, td, config, boot, db_ret>>

NoConfig == [bridge_mode |-> FALSE, forwards |-> {}]

\* broker(): where its body stands, whether an open or a listen has failed, and
\* websocket.enable; Started is broker() in its server_cb loop and after
Started == [pc |-> "start", failed |-> FALSE, websocket |-> FALSE]

\* broker(): the state when the work items wk have been created under conf
InitFrom(wk, n, conf) ==
  /\ work = wk
  /\ budget = n
  /\ tree = EmptyTree
  /\ hash = EmptyHash
  /\ cached = EmptyCache
  /\ pipes = [p \in Pipes |-> [st |-> "new", cparam |-> NullCParam]]
  /\ npkt = 0
  /\ ev = <<>>
  /\ last = [w |-> 0, state |-> "", cmd |-> "", pipe |-> 0,
             prev |-> [state |-> "", cmd |-> "", sends |-> 0]]
  /\ td = [w \in DOMAIN wk |-> Idle]
  /\ config = conf
  /\ db_ret = EmptyRet
  /\ boot = Started

\* the same without a bridge: the work items ws, all of them broker work items
InitWith(ws, n) == InitFrom([w \in ws |-> alloc_work("PROTO_MQTT_BROKER")], n, NoConfig)

Init == InitWith(Works, MaxPackets)

Next ==
  \/ \E w \in DOMAIN work : ServerCbInit(w)
  \/ \E w \in DOMAIN work : ServerCbRecv(w)
  \/ \E w \in DOMAIN work : ServerCbWait(w)
  \/ \E w \in DOMAIN work : ServerCbSend(w)

Spec == Init /\ [][Next]_vars

(* ------------------- runs with retained publications ---------------- *)

\* the callback in RECV, retained publications among the packets
ServerCbRecvRet(w) == RecvFrom(w, InboundRet)

InitRet == InitWith(Works, MaxPacketsRet)

NextRet ==
  \/ \E w \in DOMAIN work : ServerCbInit(w)
  \/ \E w \in DOMAIN work : ServerCbRecvRet(w)
  \/ \E w \in DOMAIN work : ServerCbWait(w)
  \/ \E w \in DOMAIN work : ServerCbSend(w)

SpecRet == InitRet /\ [][NextRet]_vars

(* --------- runs with a bridge and with failing async operations ------ *)

\* a non-zero nng_aio_result (7 is NNG_ECLOSED)
AioErrors == {7}

\* the bridge configurations of the runs: no bridge file, a bridge whose two
\* forwards filters both match the published topic, one whose filter does not
\* match it, and a bridge file with the bridge switched off
BridgeConfigs ==
  { NoConfig,
    [bridge_mode |-> TRUE,  forwards |-> {"a", "+"}],
    [bridge_mode |-> TRUE,  forwards |-> {"b"}],
    [bridge_mode |-> FALSE, forwards |-> {"a"}] }

\* broker(): parallel broker work items and, in bridge mode, bridge.parallel
\* bridge work items (one of each here)
BridgeWorks(conf) ==
  [w \in (IF conf.bridge_mode THEN {1, 2} ELSE {1}) |->
     alloc_work(IF w = 1 THEN "PROTO_MQTT_BROKER" ELSE "PROTO_MQTT_BRIDGE")]

\* a PUBLISH with the dup flag set
Dup(m) == [m EXCEPT !.dup = TRUE]

\* what the local transport can deliver in these runs
InboundBridge ==
  { Msg("CONNACK", p, "", 0, "", FALSE, "") : p \in {q \in Pipes : pipes[q].st = "new"} }
  \cup { Msg("DISCONNECT_EV", p, DisconnectEvTopic, 0, "", FALSE, "ev")
           : p \in {q \in Pipes : pipes[q].st = "open"} }
  \cup { Msg("PUBACK", p, "", 0, "", FALSE, "") : p \in {q \in Pipes : pipes[q].st = "open"} }
  \cup { Msg("SUBSCRIBE", p, "", 1, "a", FALSE, "") : p \in {q \in Pipes : pipes[q].st = "open"} }
  \cup { Msg("PUBLISH", p, t, 1, "", FALSE, "data")
           : p \in {q \in Pipes : pipes[q].st = "open"}, t \in ClientTopics }
  \cup { Dup(Retain(Msg("PUBLISH", p, t, 0, "", FALSE, "data")))
           : p \in {q \in Pipes : pipes[q].st = "open"}, t \in ClientTopics }

\* what the upstream broker delivers to the bridge context; its packets belong
\* to none of the local pipes
Upstream == { Msg("PUBLISH", 0, t, 0, "", FALSE, "up") : t \in ClientTopics }

\* nng_msg_get_type: the packet type of the fixed header
nng_msg_get_type(m) == m.cmd

\* a result with the fatal() call that preceded it: fatal prints and returns
AfterFatal(func, rv, r) == [r EXCEPT !.ev = <<fatal(func, rv)>> \o @]

\* case RECV up to the assignment of work->msg when the receive failed and the
\* aio holds no message
RecvNullEvs(rv) ==
  <<debug_msg("ERROR: RECV nng aio result error", rv), E0("nng_aio_wait"),
    fatal("RECV NULL MSG", rv)>>

\* case RECV when the receive failed and the aio holds no message: the case
\* goes on with msg = NULL
RecvNull(wk, rv, tr, h, ca) ==
  LET w0 == [wk EXCEPT !.msg = NoMsg, !.cparam = NullCParam, !.pid = 0]
  IN RecvTail(w0, tr, h, ca, RecvNullEvs(rv))

\* case WAIT with the aio result rv
WaitCaseRv(wk, tr, h, ca, dr, stale, rv) ==
  IF rv # 0 /\ wk.msg.cmd = "PUBLISH"
  THEN AfterFatal("WAIT nng_ctx_recv/send", rv, WaitCase(wk, tr, h, ca, dr, stale))
  ELSE WaitCase(wk, tr, h, ca, dr, stale)

\* case SEND with the aio result rv
SendCaseRv(wk, tr, h, ca, rv) ==
  IF rv # 0 THEN AfterFatal("SEND nng_ctx_send", rv, SendCase(wk, tr, h, ca))
  ELSE SendCase(wk, tr, h, ca)

\* case BRIDGE with the aio result rv and, when it is 0, the packet m
BridgeCase(wk, m, rv, tr, h, ca) ==
  IF rv # 0
  THEN Res([wk EXCEPT !.state = "RECV"], tr, h, ca,
           <<debug_msg("nng_recv_aio", rv), nng_ctx_recv("bridge_ctx")>>)
  ELSE Res([wk EXCEPT !.msg = nng_msg_set_cmd_type(m, nng_msg_get_type(m)), !.state = "RECV"],
           tr, h, ca, <<nng_aio_finish>>)

\* the conn-param attached to a packet, none for a packet of the upstream broker
CParamOf(m) == IF m.pipe \in Pipes THEN pipes[m.pipe].cparam ELSE NullCParam

\* the callback in RECV, a local packet received
ServerCbRecvBridge(w) == RecvFrom(w, InboundBridge)

\* the callback in BRIDGE: the receive on bridge_ctx (or, re-armed from WAIT,
\* on ctx) has completed
ServerCbBridge(w) ==
  /\ work[w].state = "BRIDGE"
  /\ work[w].pend \in {"recv_bridge", "recv_ctx"}
  /\ ~td[w].on
  /\ npkt < budget
  /\ \/ \E rv \in AioErrors :
          /\ Commit(w, "BRIDGE", "", 0, BridgeCase(work[w], NoMsg, rv, tree, hash, cached))
          /\ pipes' = pipes
     \/ \E m \in (IF work[w].pend = "recv_bridge" THEN Upstream ELSE InboundBridge) :
          \E cp \in (IF m.pipe \in Pipes THEN CParamsFor(m) ELSE {NullCParam}) :
            /\ Commit(w, "BRIDGE", m.cmd, m.pipe, BridgeCase(work[w], m, 0, tree, hash, cached))
            /\ pipes' = PipesAfter(m, cp)
  /\ npkt' = npkt + 1
  /\ UNCHANGED <<budget, td, config, boot, db_ret>>

\* nng_aio_finish in BRIDGE re-enters the callback in RECV: the aio still
\* holds the packet
ServerCbRecvAgain(w) ==
  /\ work[w].state = "RECV"
  /\ work[w].pend = "finish"
  /\ ~td[w].on
  /\ Commit(w, "RECV", work[w].msg.cmd, work[w].msg.pipe,
            RecvCase(work[w], work[w].msg, CParamOf(work[w].msg), tree, hash, cached, config))
  /\ db_ret' = handle_pub_retain(db_ret, work[w].msg)
  /\ UNCHANGED <<pipes, npkt, budget, td, config, boot>>

\* the callback in RECV on a receive issued on bridge_ctx (by case BRIDGE
\* after an error): the packet's command type is what the transport left there
ServerCbRecvUpstream(w) ==
  /\ work[w].state = "RECV"
  /\ work[w].pend = "recv_bridge"
  /\ ~td[w].on
  /\ npkt < budget
  /\ \E m \in Upstream : \E cmd \in {nng_msg_get_type(m), "NULL"} :
       Commit(w, "RECV", cmd, m.pipe,
              RecvCase(work[w], nng_msg_set_cmd_type(m, cmd), NullCParam, tree, hash, cached, config))
  /\ npkt' = npkt + 1
  /\ UNCHANGED <<pipes, budget, td, config, boot, db_ret>>

\* the callback in RECV, the receive failed: nng_aio_get_msg returns NULL and
\* the case dereferences it; either the process dies there or the case goes on
ServerCbRecvErr(w) ==
  /\ work[w].state = "RECV"
  /\ work[w].pend \in {"recv_ctx", "recv_bridge"}
  /\ ~td[w].on
  /\ npkt < budget
  /\ \E rv \in AioErrors :
       \/ /\ work' = [x \in DOMAIN work |-> [work[x] EXCEPT !.pend = "none"]]
          /\ ev' = RecvNullEvs(rv)
          /\ last' = Last(w, "RECV", "", 0)
          /\ UNCHANGED <<tree, hash, cached>>
       \/ Commit(w, "RECV", "", 0, RecvNull(work[w], rv, tree, hash, cached))
  /\ npkt' = npkt + 1
  /\ UNCHANGED <<pipes, budget, td, config, boot, db_ret>>

\* the callback in WAIT on a PUBLISH, the aio reporting an error
ServerCbWaitErr(w) ==
  /\ work[w].state = "WAIT"
  /\ work[w].pend = "finish"
  /\ work[w].msg.cmd = "PUBLISH"
  /\ ~td[w].on
  /\ npkt < budget
  /\ \E rv \in AioErrors : \E stale \in BOOLEAN :
       Commit(w, "WAIT", work[w].msg.cmd, work[w].msg.pipe,
              WaitCaseRv(work[w], tree, hash, cached, db_ret, stale, rv))
  /\ npkt' = npkt + 1
  /\ UNCHANGED <<pipes, budget, td, config, boot, db_ret>>

\* the callback in SEND, the aio reporting an error
ServerCbSendErr(w) ==
  /\ work[w].state = "SEND"
  /\ work[w].pend \in {"finish", "send"}
  /\ ~td[w].on
  /\ npkt < budget
  /\ \E rv \in AioErrors : Commit(w, "SEND", "", 0, SendCaseRv(work[w], tree, hash, cached, rv))
  /\ npkt' = npkt + 1
  /\ UNCHANGED <<pipes, budget, td, config, boot, db_ret>>

InitBridge == \E conf \in BridgeConfigs : InitFrom(BridgeWorks(conf), MaxPacketsBridge, conf)

NextBridge ==
  \/ \E w \in DOMAIN work : ServerCbInit(w)
  \/ \E w \in DOMAIN work : ServerCbRecvBridge(w)
  \/ \E w \in DOMAIN work : ServerCbWait(w)
  \/ \E w \in DOMAIN work : ServerCbSend(w)
  \/ \E w \in DOMAIN work : ServerCbBridge(w)
  \/ \E w \in DOMAIN work : ServerCbRecvAgain(w)
  \/ \E w \in DOMAIN work : ServerCbRecvUpstream(w)
  \/ \E w \in DOMAIN work : ServerCbRecvErr(w)
  \/ \E w \in DOMAIN work : ServerCbWaitErr(w)
  \/ \E w \in DOMAIN work : ServerCbSendErr(w)

SpecBridge == InitBridge /\ [][NextBridge]_vars

(* ------------- runs under fair scheduling of the callbacks ----------- *)

\* the pipes that connect in these runs
LivePipes == {1}

\* what the transport can deliver in these runs: every packet type
InboundLive ==
  { Msg("CONNACK", p, "", 0, "", FALSE, "") : p \in {q \in LivePipes : pipes[q].st = "new"} }
  \cup { Msg("DISCONNECT_EV", p, DisconnectEvTopic, 0, "", FALSE, "ev")
           : p \in {q \in Pipes : pipes[q].st = "open"} }
  \cup { Msg(c, p, "", 0, "", FALSE, "")
           : c \in PlainCmds \cup {"DISCONNECT"}, p \in {q \in Pipes : pipes[q].st = "open"} }
  \cup { Msg("PUBLISH", p, t, 1, "", FALSE, "data")
           : p \in {q \in Pipes : pipes[q].st = "open"}, t \in ClientTopics }
  \cup { Msg("SUBSCRIBE", p, "", 1, "a", FALSE, "") : p \in {q \in Pipes : pipes[q].st = "open"} }
  \cup { Msg("SUBSCRIBE", p, "", 0, "", TRUE, "") : p \in {q \in Pipes : pipes[q].st = "open"} }
  \cup { Msg("UNSUBSCRIBE", p, "", 0, "a", FALSE, "") : p \in {q \in Pipes : pipes[q].st = "open"} }

ServerCbRecvLive(w) == RecvFrom(w, InboundLive)

InitLive == InitWith(WorksPar, MaxPacketsLive)

NextLive ==
  \/ \E w \in DOMAIN work : ServerCbInit(w)
  \/ \E w \in DOMAIN work : ServerCbRecvLive(w)
  \/ \E w \in DOMAIN work : ServerCbWait(w)
  \/ \E w \in DOMAIN work : ServerCbSend(w)

\* Two work items. nng_aio_finish and a completed send put the callback on the
\* task queue, which runs it: a callback that is due in WAIT or in SEND is
\* eventually run. Nothing is assumed about packets arriving.
SpecLive ==
  /\ InitLive
  /\ [][NextLive]_vars
  /\ \A w \in WorksPar : WF_vars(ServerCbWait(w)) /\ WF_vars(ServerCbSend(w))

(* ------------------- runs from the start of broker() ----------------- *)

\* nng_nmq_tcp0_open(&sock), with result rv
BrokerOpen ==
  /\ boot.pc = "open"
  /\ \E rv \in {0} \cup AioErrors :
       /\ ev' = IF rv # 0 THEN <<fatal("nng_nmq_tcp0_open", rv)>> ELSE <<>>
       /\ boot' = [boot EXCEPT !.pc = "works", !.failed = @ \/ rv # 0]
  /\ UNCHANGED <<work, tree, hash, cached, pipes, npkt, budget, last, td, config, db_ret>>

\* the proto_work_init loops
BrokerWorks ==
  /\ boot.pc = "works"
  /\ work' = BridgeWorks(config)
  /\ td' = [w \in DOMAIN BridgeWorks(config) |-> Idle]
  /\ ev' = <<>>
  /\ boot' = [boot EXCEPT !.pc = "listen"]
  /\ UNCHANGED <<tree, hash, cached, pipes, npkt, budget, last, config, db_ret>>

\* nng_listen(sock, url, NULL, 0), with result rv
BrokerListen ==
  /\ boot.pc = "listen"
  /\ \E rv \in {0} \cup AioErrors :
       /\ ev' = IF rv # 0 THEN <<fatal("nng_listen", rv)>> ELSE <<>>
       /\ boot' = [boot EXCEPT !.pc = IF boot.websocket THEN "listen_ws" ELSE "start",
                               !.failed = @ \/ rv # 0]
  /\ UNCHANGED <<work, tree, hash, cached, pipes, npkt, budget, last, td, config, db_ret>>

\* nng_listen(sock, websocket.url, NULL, 0), with result rv
BrokerListenWebsocket ==
  /\ boot.pc = "listen_ws"
  /\ \E rv \in {0} \cup AioErrors :
       /\ ev' = IF rv # 0 THEN <<fatal("nng_listen websocket", rv)>> ELSE <<>>
       /\ boot' = [boot EXCEPT !.pc = "start", !.failed = @ \/ rv # 0]
  /\ UNCHANGED <<work, tree, hash, cached, pipes, npkt, budget, last, td, config, db_ret>>

\* server_cb(works[i]): this starts them going
BrokerServerCb(w) == boot.pc = "start" /\ ServerCbInit(w)

\* broker() entered: the trees created, nothing opened yet
InitStart ==
  \E conf \in {NoConfig, [bridge_mode |-> TRUE, forwards |-> {"a"}]} : \E ws \in BOOLEAN :
    /\ work = << >>
    /\ td = << >>
    /\ budget = MaxPacketsStart
    /\ tree = EmptyTree
    /\ hash = EmptyHash
    /\ cached = EmptyCache
    /\ pipes = [p \in Pipes |-> [st |-> "new", cparam |-> NullCParam]]
    /\ npkt = 0
    /\ ev = <<>>
    /\ last = [w |-> 0, state |-> "", cmd |-> "", pipe |-> 0,
               prev |-> [state |-> "", cmd |-> "", sends |-> 0]]
    /\ config = conf
    /\ db_ret = EmptyRet
    /\ boot = [pc |-> "open", failed |-> FALSE, websocket |-> ws]

NextStart ==
  \/ BrokerOpen
  \/ BrokerWorks
  \/ BrokerListen
  \/ BrokerListenWebsocket
  \/ \E w \in DOMAIN work : BrokerServerCb(w)
  \/ \E w \in DOMAIN work : ServerCbRecv(w)
  \/ \E w \in DOMAIN work : ServerCbWait(w)
  \/ \E w \in DOMAIN work : ServerCbSend(w)

SpecStart == InitStart /\ [][NextStart]_vars

(* ---------- the DISCONNECT_EV branch, one shared-state call a step --- *)

\* Work items run concurrently on the task-queue threads; the branch takes no
\* lock of its own, so other work items run between its dbtree and dbhash calls.

\* up to cache_session: the event is published and the session cached
DisconnectEvBegin(w) ==
  /\ work[w].state = "RECV"
  /\ work[w].pend = "recv_ctx"
  /\ ~td[w].on
  /\ npkt < budget
  /\ \E m \in {x \in Inbound : x.cmd = "DISCONNECT_EV"} :
       LET w0 == [work[w] EXCEPT !.msg = nng_msg_set_cmd_type(m, "PUBLISH"),
                                 !.cparam = pipes[m.pipe].cparam, !.pid = m.pipe]
           w1 == handle_pub(w0, tree)
       IN /\ work' = [work EXCEPT ![w] = w1]
          /\ cached' = DisconnectEvCache(w1, tree, hash, cached)
          /\ td' = [td EXCEPT ![w] =
                      [on |-> TRUE,
                       tq |-> IF dbhash_check_id(hash, m.pipe)
                              THEN dbhash_get_topic_queue(hash, m.pipe) ELSE <<>>,
                       del |-> dbhash_check_id(hash, m.pipe)]]
          /\ ev' = <<EvHandlePub(w0.msg)>>
          /\ last' = Last(w, "RECV", "DISCONNECT_EV", m.pipe)
          /\ pipes' = PipesAfter(m, pipes[m.pipe].cparam)
  /\ npkt' = npkt + 1
  /\ UNCHANGED <<tree, hash, budget, config, boot, db_ret>>

\* one turn of the while (tq) loop: dbtree_delete_client
TeardownStep(w) ==
  /\ td[w].on
  /\ td[w].tq # <<>>
  /\ tree' = dbtree_delete_client(tree, Head(td[w].tq), work[w].pid)
  /\ td' = [td EXCEPT ![w].tq = Tail(@)]
  /\ ev' = ev \o <<Ev("dbtree_delete_client", work[w].pid, "", Head(td[w].tq), 0, 0)>>
  /\ last' = Last(w, "RECV", "DISCONNECT_EV", work[w].pid)
  /\ UNCHANGED <<work, hash, cached, pipes, npkt, budget, config, boot, db_ret>>

\* dbhash_del_topic_queue, conn_param_free, state = WAIT, nng_aio_finish
TeardownEnd(w) ==
  /\ td[w].on
  /\ td[w].tq = <<>>
  /\ hash' = IF td[w].del THEN dbhash_del_topic_queue(hash, work[w].pid) ELSE hash
  /\ work' = [work EXCEPT ![w] = [@ EXCEPT !.cparam = NullCParam, !.state = "WAIT",
                                             !.pend = "finish"]]
  /\ td' = [td EXCEPT ![w] = Idle]
  /\ ev' = ev \o <<E0("conn_param_free"), nng_aio_finish>>
  /\ last' = Last(w, "RECV", "DISCONNECT_EV", work[w].pid)
  /\ UNCHANGED <<tree, cached, pipes, npkt, budget, config, boot, db_ret>>

\* the callback in RECV for every other packet
ServerCbRecvOther(w) == RecvFrom(w, {m \in Inbound : m.cmd # "DISCONNECT_EV"})

InitPar == InitWith(WorksPar, MaxPacketsPar)

NextPar ==
  \/ \E w \in DOMAIN work : ServerCbInit(w)
  \/ \E w \in DOMAIN work : ServerCbRecvOther(w)
  \/ \E w \in DOMAIN work : DisconnectEvBegin(w)
  \/ \E w \in DOMAIN work : TeardownStep(w)
  \/ \E w \in DOMAIN work : TeardownEnd(w)
  \/ \E w \in DOMAIN work : ServerCbWait(w)
  \/ \E w \in DOMAIN work : ServerCbSend(w)

SpecPar == InitPar /\ [][NextPar]_vars

TypeOK ==
  /\ \A w \in DOMAIN work : work[w].state \in {"INIT", "RECV", "WAIT", "SEND", "BRIDGE"}
  /\ npkt \in 0..budget

(* ============================== claims =============================== *)

\* the work item whose callback made the last step, entered in state st
Stepped(w, st) == last.w = w /\ last.state = st

\* C1: every invocation of the worker callback ends with exactly one
\* suspension action (one receive, one send, one finish or a fatal), never two.
C1_OneSuspensionPerTransition == last.w # 0 => Len(Suspensions(ev)) = 1

\* pipe p and the tree agree on the filters p holds
DualFor(p) == \A f \in Filters : InSeq(hash[p], f) <=> \E c \in tree[f] : c.pipe = p

\* C2: at the end of every worker step the pipe index and the topic tree are
\* exact duals: p lists filter f iff p is a subscriber of the tree node of f.
C2_PipeIndexDualOfTree == \A p \in Pipes : DualFor(p)

\* C3: a work item tearing down a pipe on DISCONNECT_EV never leaves, between
\* two of its steps, a state another work item can observe in which the tree
\* and the pipe index disagree about that pipe.
C3_TeardownIsAtomic ==
  [][\A w \in DOMAIN work :
       (td[w].on /\ last'.w = w /\ DualFor(work[w].pid)) => DualFor(work[w].pid)']_vars

\* the pipes a sequence of send events or of pipe_info entries goes to
PipesOf(s) == [i \in 1..Len(s) |-> s[i].pipe]

\* the callback of w is about to run the WAIT branch of a PUBLISH with fanout
AtFanout(w) ==
  /\ work[w].state = "WAIT" /\ work[w].pend = "finish" /\ ~td[w].on
  /\ work[w].msg.cmd = "PUBLISH" /\ work[w].pipe_ct.total > 0

\* C4: for a PUBLISH whose descriptor has total = N > 0 the WAIT step issues
\* exactly N sends of the publication, one to each pipe-id of the descriptor in
\* index order, none skipped and none twice; every pipe matching the topic is
\* among them.
C4_FanoutSendsEachOnce ==
  [][\A w \in DOMAIN work :
       (AtFanout(w) /\ last'.w = w) =>
          LET snd == Sends(ev')
              pi  == work[w].pipe_ct.pipe_info
          IN /\ Len(snd) = work[w].pipe_ct.total
             /\ PipesOf(snd) = PipesOf(pi)
             /\ \A i, j \in 1..Len(snd) : i # j => snd[i].pipe # snd[j].pipe
             /\ \A i \in 1..Len(snd) :
                  snd[i].cmd = "PUBLISH" /\ snd[i].topic = work[w].pub_packet.topic
             /\ Matched(tree, work[w].pub_packet.topic) \subseteq {snd[i].pipe : i \in 1..Len(snd)}]_vars

\* a fanout over two destinations has just been sent
C4_Witness ==
  /\ last.state = "WAIT" /\ last.cmd = "PUBLISH"
  /\ Len(Sends(ev)) = 2
  /\ Sends(ev)[1].pipe # Sends(ev)[2].pipe

\* work item w has a receive outstanding for its next inbound packet
Rearmed(w) == work[w].pend \in {"recv_ctx", "recv_bridge"}

\* C5: always current_index <= total, and whenever a work item has re-armed a
\* receive its descriptor is reset (total = 0, current_index = 0) and the
\* per-packet allocations of the previous PUBLISH are released.
C5_FanoutDescriptorReset ==
  \A w \in DOMAIN work :
    /\ work[w].pipe_ct.current_index <= work[w].pipe_ct.total
    /\ work[w].pipe_ct.total = Len(work[w].pipe_ct.pipe_info)
    /\ Rearmed(w) =>
         /\ work[w].pipe_ct = init_pipe_content
         /\ ~work[w].pub_alloc.live
         /\ ~work[w].pinfo_alloc.live

\* the step before the last was the WAIT branch of a PUBLISH with n sends
AfterFanout(n) ==
  last.prev.state = "WAIT" /\ last.prev.cmd = "PUBLISH" /\ last.prev.sends = n

\* a receive re-armed by SEND after a fanout over two pipes was dispatched
C5_Witness ==
  \E w \in DOMAIN work :
    /\ Stepped(w, "SEND") /\ Rearmed(w) /\ AfterFanout(2)
    /\ work[w].pub_alloc = Free(Alloc)
    /\ work[w].pipe_ct = init_pipe_content

\* C6: the decoded pub packet and the pipe_info vector of a publication are
\* freed exactly once over its WAIT and SEND steps: never twice, and not left
\* allocated once the work item waits for the next packet.
C6_FreedExactlyOnce ==
  \A w \in DOMAIN work :
    /\ work[w].pub_alloc.frees <= 1 /\ work[w].pinfo_alloc.frees <= 1
    /\ (work[w].state = "SEND" \/ Rearmed(w)) =>
         /\ work[w].pub_alloc \in {NoAlloc, Free(Alloc)}
         /\ work[w].pinfo_alloc \in {NoAlloc, Free(Alloc)}
         /\ work[w].pub_alloc = work[w].pinfo_alloc

\* SEND has run after WAIT fanned a publication out to one pipe and released it
C6_Witness ==
  \E w \in DOMAIN work :
    /\ Stepped(w, "SEND") /\ AfterFanout(1)
    /\ work[w].pub_alloc.frees = 1 /\ work[w].pinfo_alloc.frees = 1

\* C7: every message of a fanout carries the QoS negotiated for its
\* destination, min(q_p, q_s), whatever the other destinations requested.
C7_QosDowngradePerSubscriber ==
  [][\A w \in DOMAIN work :
       (AtFanout(w) /\ last'.w = w) =>
          LET snd == Sends(ev')
              pi  == work[w].pipe_ct.pipe_info
          IN \A i \in 1..Len(snd) :
               i <= Len(pi) =>
                 snd[i].pipe = pi[i].pipe /\ snd[i].qos = pi[i].qos]_vars

\* the last step, by w, was case RECV on a packet with this command
RecvStepOf(w, cmd) == last'.w = w /\ last'.state = "RECV" /\ last'.cmd = cmd

\* some event of s has this op, for this topic
HasEv(s, op, topic) == \E i \in 1..Len(s) : s[i].op = op /\ s[i].topic = topic

\* C8: a CONNECT with clean-start = 0 for a client-id with a cached session
\* re-binds every cached subscription to the new pipe-id, in the pipe index and
\* in the topic tree, before the CONNACK is sent and before a publication is
\* matched, so a matching publication goes to the new pipe with no SUBSCRIBE.
C8_SessionRestoredBeforeConnack ==
  [][\A w \in DOMAIN work :
       RecvStepOf(w, "CONNACK") =>
         LET cp  == work'[w].cparam
             c   == conn_param_get_clientid(cp)
             pid == last'.pipe
         IN (c # "NULL" /\ conn_param_get_clean_start(cp) = 0 /\ cached[c] # <<>>) =>
              /\ \A i \in 1..Len(cached[c]) :
                   /\ [pipe |-> pid, qos |-> cached[c][i].qos] \in tree'[cached[c][i].topic]
                   /\ InSeq(hash'[pid], cached[c][i].topic)
              /\ FirstIdx(ev', "restore_session", 1) > 0
              /\ FirstIdx(ev', "restore_session", 1) < FirstIdx(ev', "send", 1)
              /\ FirstIdx(ev', "restore_session", 1) < FirstIdx(ev', "handle_pub", 1)
              /\ (\E i \in 1..Len(cached[c]) : topic_filter(cached[c][i].topic, ConnectEvTopic))
                   => \E j \in 1..work'[w].pipe_ct.total :
                        work'[w].pipe_ct.pipe_info[j].pipe = pid]_vars

\* a CONNACK for a clean-start = 0 client has just re-bound a cached session
C8_Witness ==
  \E w \in DOMAIN work :
    /\ Stepped(w, "RECV") /\ last.cmd = "CONNACK"
    /\ conn_param_get_clean_start(work[w].cparam) = 0
    /\ HasEv(ev, "restore_session", "")
    /\ hash[last.pipe] # <<>>
    /\ pipes[last.pipe].st = "open"
    /\ \E p \in Pipes : pipes[p].st = "closed"

\* C9: a CONNECT with clean-start = 1 for a client-id with a cached session
\* evicts the session: nothing is re-bound to the new pipe-id and a matching
\* publication is not sent to the new pipe.
C9_CleanStartEvictsSession ==
  [][\A w \in DOMAIN work :
       RecvStepOf(w, "CONNACK") =>
         LET cp  == work'[w].cparam
             c   == conn_param_get_clientid(cp)
             pid == last'.pipe
         IN (c # "NULL" /\ conn_param_get_clean_start(cp) = 1 /\ cached[c] # <<>>) =>
              /\ cached'[c] = <<>>
              /\ hash'[pid] = <<>>
              /\ \A f \in Filters : \A x \in tree'[f] : x.pipe # pid
              /\ \A j \in 1..work'[w].pipe_ct.total :
                   work'[w].pipe_ct.pipe_info[j].pipe # pid]_vars

\* C10: whenever a client with will-flag = 1 is disconnected (DISCONNECT
\* received, or pipe loss reported as DISCONNECT_EV), a PUBLISH built from the
\* will fields goes through the publish handler and its fanout is the
\* subscribers matching will-topic; with will-flag = 0 no will is published.
C10_WillPromotedOnDisconnect ==
  [][\A w \in DOMAIN work :
       (RecvStepOf(w, "DISCONNECT") \/ RecvStepOf(w, "DISCONNECT_EV")) =>
         LET cp == pipes[last'.pipe].cparam
         IN IF conn_param_get_will_flag(cp)
            THEN /\ HasEv(ev', "handle_pub", conn_param_get_will_topic(cp))
                 /\ work'[w].state = "WAIT"
                 /\ work'[w].pub_packet.topic = conn_param_get_will_topic(cp)
                 /\ work'[w].pipe_ct.pipe_info =
                      PipeInfoOf(tree, conn_param_get_will_topic(cp), conn_param_get_will_qos(cp))
            ELSE ~HasEv(ev', "handle_pub", conn_param_get_will_topic(cp))]_vars

\* number of events of s with this op
CountEv(s, op) == Len(SelectEv(s, {op}))

\* C11: the RECV step of a DISCONNECT, with or without a will, drops the
\* pipe-index entry of the disconnecting pipe and releases the conn-param
\* before the work item goes on.
C11_DisconnectTearsDown ==
  [][\A w \in DOMAIN work :
       RecvStepOf(w, "DISCONNECT") =>
         /\ hash'[last'.pipe] = <<>>
         /\ HasEv(ev', "conn_param_free", "")]_vars

\* the callback of w is about to run the WAIT branch of a packet with this
\* command
AtWait(w, cmd) ==
  /\ work[w].state = "WAIT" /\ work[w].pend = "finish" /\ ~td[w].on
  /\ work[w].msg.cmd = cmd

\* C16: in every callback invocation the core releases as many conn-param
\* references as it clones (WAIT and SEND make no conn-param call, so the
\* balance of a packet's life-cycle is the balance of its RECV step).
C16_ConnParamBalanced ==
  last.w # 0 => CountEv(ev, "conn_param_clone") = CountEv(ev, "conn_param_free")

\* the reference count of one message after the events s, from count rc:
\* a clone adds a reference, a send hands one to the transport, a free drops
\* one; -1 when the message is used with no reference left
RECURSIVE RefAfter(_, _)
RefAfter(s, rc) ==
  IF s = <<>> \/ rc < 0 THEN rc
  ELSE IF Head(s).op \notin {"nng_msg_clone", "send", "nng_msg_free"}
       THEN RefAfter(Tail(s), rc)
       ELSE IF rc = 0 THEN -1
            ELSE RefAfter(Tail(s), IF Head(s).op = "nng_msg_clone" THEN rc + 1 ELSE rc - 1)

\* C17 as stated: a fanout over N destinations clones the message N - 1 times
\* and the references balance to zero.
C17_ClonesPerAdditionalDestination ==
  [][\A w \in DOMAIN work :
       (AtFanout(w) /\ last'.w = w) =>
         /\ CountEv(ev', "nng_msg_clone") = work[w].pipe_ct.total - 1
         /\ RefAfter(ev', 1) = 0]_vars

\* C17, amended: a fanout over N destinations clones the message once per
\* destination (N clones), hands one reference to each of the N sends and
\* frees the original once, after the last send; the message is never used
\* with no reference left and its count ends at zero. The CONNACK step
\* balances its one clone the same way.
C17_FanoutReferencesBalance ==
  [][\A w \in DOMAIN work :
       /\ (AtFanout(w) /\ last'.w = w) =>
            /\ CountEv(ev', "nng_msg_clone") = work[w].pipe_ct.total
            /\ CountEv(ev', "send") = work[w].pipe_ct.total
            /\ CountEv(ev', "nng_msg_free") = 1
            /\ FirstIdx(ev', "nng_msg_free", 1) > Len(ev') - 2
            /\ RefAfter(ev', 1) = 0
       /\ RecvStepOf(w, "CONNACK") =>
            /\ CountEv(ev', "nng_msg_clone") = 1
            /\ RefAfter(ev', 1) = 0]_vars

\* a fanout over two destinations has balanced its references
C17_Witness ==
  /\ last.state = "WAIT" /\ last.cmd = "PUBLISH"
  /\ CountEv(ev, "send") = 2 /\ CountEv(ev, "nng_msg_clone") = 2
  /\ RefAfter(ev, 1) = 0

\* C20: a SUBSCRIBE or UNSUBSCRIBE that fails to decode is dropped: its WAIT
\* step sends nothing to the client and the work item returns to RECV.
C20_DecodeFailureDropsPacket ==
  [][\A w \in DOMAIN work :
       ((AtWait(w, "SUBSCRIBE") \/ AtWait(w, "UNSUBSCRIBE"))
          /\ ~decode_sub_message(work[w].msg) /\ last'.w = w) =>
         /\ Sends(ev') = <<>>
         /\ work'[w].state = "RECV"]_vars

\* the retained messages a callback invocation sent
ReplaySends(s) == SelectSeq(Sends(s), LAMBDA e : e.cmd = "PUBLISH")

\* C12: the retained messages the WAIT step of a SUBSCRIBE sends to the
\* subscribing pipe are exactly the retained matches of that SUBSCRIBE's
\* filter, each once; a SUBSCRIBE that failed to decode replays nothing, and
\* nothing collected for an earlier SUBSCRIBE is sent again.
C12_ReplayIsThisSubscribesMatches ==
  [][\A w \in DOMAIN work :
       (AtWait(w, "SUBSCRIBE") /\ last'.w = w) =>
         LET m   == work[w].msg
             exp == IF decode_sub_message(m) THEN RetSeq(retained_for(db_ret, m.filter))
                    ELSE <<>>
             got == ReplaySends(ev')
         IN /\ Len(got) = Len(exp)
            /\ \A i \in 1..Len(got) :
                 /\ got[i].pipe = m.pipe
                 /\ got[i].topic = exp[i].topic]_vars

\* C13: in the WAIT step of a SUBSCRIBE every retained replay is sent before
\* the SUBACK, which is the last message the step sends.
C13_ReplayBeforeSuback ==
  [][\A w \in DOMAIN work :
       (AtWait(w, "SUBSCRIBE") /\ last'.w = w) =>
         LET snd == Sends(ev')
         IN /\ Len(snd) >= 1
            /\ snd[Len(snd)].cmd = "SUBACK"
            /\ \A i \in 1..(Len(snd) - 1) : snd[i].cmd = "PUBLISH"]_vars

\* a SUBSCRIBE has been answered with one retained message, then the SUBACK
C13_Witness ==
  /\ last.state = "WAIT" /\ last.cmd = "SUBSCRIBE"
  /\ Len(Sends(ev)) = 2
  /\ Sends(ev)[1].cmd = "PUBLISH" /\ Sends(ev)[1].pipe = last.pipe
  /\ Sends(ev)[2].cmd = "SUBACK"

\* the forwards to the upstream broker among the events s
BridgeSends(s) == SelectEv(s, {"bridge_send"})

\* C14: the RECV step of a local PUBLISH enqueues exactly one PUBLISH for the
\* upstream broker, with the topic, payload, dup, qos and retain of the packet,
\* when bridge mode is on and some forwards filter matches the topic, and
\* enqueues none when no filter matches or bridge mode is off.
C14_ForwardedIffFilterMatches ==
  [][\A w \in DOMAIN work :
       (RecvStepOf(w, "PUBLISH") /\ last'.pipe \in Pipes) =>
         LET m  == work'[w].msg
             fw == BridgeSends(ev')
         IN IF config.bridge_mode /\ \E f \in config.forwards : topic_filter(f, m.topic)
            THEN /\ Len(fw) = 1
                 /\ fw[1].topic = m.topic /\ fw[1].payload = m.payload
                 /\ fw[1].dup = m.dup /\ fw[1].qos = m.qos /\ fw[1].retain = m.retain
            ELSE fw = <<>>]_vars

\* a retained duplicate PUBLISH matched by two forwards filters has been
\* forwarded once
C14_Witness ==
  /\ last.state = "RECV" /\ last.cmd = "PUBLISH" /\ last.pipe \in Pipes
  /\ config.bridge_mode
  /\ Cardinality({f \in config.forwards : topic_filter(f, work[last.w].msg.topic)}) = 2
  /\ work[last.w].msg.retain /\ work[last.w].msg.dup
  /\ Len(BridgeSends(ev)) = 1

\* the callback found a non-zero result of the receive it was entered on
ReceiveFailed(s) == \E i \in 1..Len(s) : s[i].op = "debug_msg" /\ s[i].extra # 0

\* C18: a callback that reports a fatal error stops there: the fatal is the
\* last thing it does and the work item's state is what it was.
C18_FatalAbortsWorker ==
  [][\A w \in DOMAIN work :
       (last'.w = w /\ CountEv(ev', "fatal") > 0) =>
         /\ FirstIdx(ev', "fatal", 1) = Len(ev')
         /\ work'[w].state = work[w].state]_vars

\* C19: a callback entered in RECV or BRIDGE on a failed receive issues that
\* receive again, on the context it was on, and leaves the state alone.
C19_FailedReceiveIsReissued ==
  [][\A w \in DOMAIN work :
       (work[w].state \in {"RECV", "BRIDGE"} /\ last'.w = w /\ ReceiveFailed(ev')) =>
         /\ work'[w].state = work[w].state
         /\ work'[w].pend = work[w].pend
         /\ Suspensions(ev') = <<E0(work[w].pend)>>]_vars

\* the pipes of the fanout descriptor of w, and the pipes the events s send to
DestsOf(w) ==
  {work[w].pipe_ct.pipe_info[i].pipe : i \in 1..Len(work[w].pipe_ct.pipe_info)}

SentTo(s) == {Sends(s)[i].pipe : i \in 1..Len(Sends(s))}

SubscribersOf(tr, topic) == Matched(tr, topic)

\* C21: the RECV step of a CONNACK sends exactly one CONNACK, to the pipe it
\* arrived on, and after it hands exactly one connect-event publication to the
\* publish handler, whose fanout holds every subscriber of the event topic; the
\* WAIT step of that publication sends it to each of them.
C21_ConnackThenConnectEvent ==
  [][\A w \in DOMAIN work :
       /\ RecvStepOf(w, "CONNACK") =>
            /\ Len(Sends(ev')) = 1
            /\ Sends(ev')[1].cmd = "CONNACK" /\ Sends(ev')[1].pipe = last'.pipe
            /\ CountEv(ev', "handle_pub") = 1
            /\ HasEv(ev', "handle_pub", ConnectEvTopic)
            /\ FirstIdx(ev', "send", 1) < FirstIdx(ev', "handle_pub", 1)
            /\ DestsOf(w)' = SubscribersOf(tree', ConnectEvTopic)
       /\ (AtWait(w, "PUBLISH") /\ work[w].msg.topic = ConnectEvTopic /\ last'.w = w) =>
            /\ SentTo(ev') = DestsOf(w)
            /\ \A i \in 1..Len(Sends(ev')) : Sends(ev')[i].topic = ConnectEvTopic]_vars

\* the connect event of a second client has been sent to a subscriber of the
\* event topic
C21_Witness ==
  /\ last.state = "WAIT" /\ last.cmd = "PUBLISH"
  /\ last.prev.state = "RECV" /\ last.prev.cmd = "CONNACK"
  /\ Len(Sends(ev)) >= 1
  /\ \A i \in 1..Len(Sends(ev)) : Sends(ev)[i].topic = ConnectEvTopic

\* C22: a work item hands a publication to the publish handler only when the
\* fanout of the one before is spent, and the WAIT step of a publication issues
\* all its sends, in the order of the fanout and each carrying the topic of the
\* publication in hand; so the sends of one work item to one pipe follow the
\* order in which it processed the publications, whatever other work items do.
C22_SendsFollowProcessingOrder ==
  [][\A w \in DOMAIN work :
       /\ (last'.w = w /\ ~td[w].on /\ CountEv(ev', "handle_pub") > 0) =>
            /\ work[w].pipe_ct.total = 0
            /\ work[w].pipe_ct.current_index = 0
       /\ (AtFanout(w) /\ last'.w = w) =>
            /\ PipesOf(Sends(ev')) = PipesOf(work[w].pipe_ct.pipe_info)
            /\ \A i \in 1..Len(Sends(ev')) :
                 /\ Sends(ev')[i].cmd = "PUBLISH"
                 /\ Sends(ev')[i].topic = work[w].pub_packet.topic
            /\ work'[w].pipe_ct.total = 0]_vars

\* a work item has sent its publication to the subscriber while the other work
\* item holds a publication for that subscriber, not yet sent
C22_Witness ==
  /\ last.w # 0 /\ last.state = "WAIT" /\ last.cmd = "PUBLISH"
  /\ Len(Sends(ev)) >= 1
  /\ \E x \in DOMAIN work :
       /\ x # last.w /\ AtFanout(x)
       /\ \E i \in 1..Len(work[x].pipe_ct.pipe_info) :
            work[x].pipe_ct.pipe_info[i].pipe = Sends(ev)[1].pipe

\* C23: once opening the socket or binding a listener has failed, broker() has
\* left with a failure status and no work item has been started.
C23_StartupFailureExits ==
  boot.failed =>
    /\ boot.pc = "exit"
    /\ \A w \in DOMAIN work : work[w].state = "INIT"

\* the reply the WAIT case generates for a request
ReplyTo(cmd) ==
  CASE cmd = "PINGREQ"     -> "PINGRESP"
    [] cmd = "PUBREC"      -> "PUBREL"
    [] cmd = "SUBSCRIBE"   -> "SUBACK"
    [] cmd = "UNSUBSCRIBE" -> "UNSUBACK"

\* the WAIT step of a request cmd sends its reply once, to the pipe of the
\* request, and goes to SEND
RepliesOnce(w, cmd) ==
  (AtWait(w, cmd) /\ last'.w = w) =>
    LET rs == SelectSeq(Sends(ev'), LAMBDA e : e.cmd = ReplyTo(cmd))
    IN /\ Len(rs) = 1
       /\ rs[1].pipe = work[w].msg.pipe
       /\ work'[w].state = "SEND"

\* C24: the WAIT step of a PINGREQ, PUBREC, SUBSCRIBE or UNSUBSCRIBE sends the
\* reply (PINGRESP, PUBREL, SUBACK, UNSUBACK) exactly once, to the pipe the
\* request arrived on, and leaves the work item in SEND.
C24_ReplyOnceToRequestPipe ==
  [][\A w \in DOMAIN work :
       \A cmd \in {"PINGREQ", "PUBREC", "SUBSCRIBE", "UNSUBSCRIBE"} : RepliesOnce(w, cmd)]_vars

\* C25: a work item with a receive outstanding is in BRIDGE exactly when the
\* receive is on the bridge context; a broker work item is never in BRIDGE, and
\* a bridge work item with a receive outstanding is in BRIDGE, receiving on the
\* bridge context.
C25_StateAgreesWithContext ==
  \A w \in DOMAIN work :
    /\ work[w].proto = "PROTO_MQTT_BROKER" => work[w].state # "BRIDGE"
    /\ Rearmed(w) =>
         /\ work[w].state = "BRIDGE" <=> work[w].pend = "recv_bridge"
         /\ work[w].proto = "PROTO_MQTT_BRIDGE" =>
              work[w].state = "BRIDGE" /\ work[w].pend = "recv_bridge"

\* C26: the RECV step of a PUBLISH that came from the upstream broker forwards
\* nothing to the upstream broker.
C26_UpstreamPublishNotForwardedBack ==
  [][\A w \in DOMAIN work :
       (RecvStepOf(w, "PUBLISH") /\ work'[w].msg \in Upstream) =>
         BridgeSends(ev') = <<>>]_vars

====
